---- MODULE Spec2Model ----
(***************************************************************************)
(* A model of dlgo/goboard_slow.py and dlgo/gotypes.py: the Go board with  *)
(* its stone strings and liberties (Board, GoString), and the chain of     *)
(* game states produced by GameState.apply_move.                           *)
(*                                                                         *)
(* Spec is a game: new_game, then apply_move with Play, Pass and Resign.   *)
(* SpecBoard is one Board on which place_stone is called with the players  *)
(* in any order.  SpecPure is one call on Move or GoString with arguments  *)
(* from bounded sets: Move(...), Move.play and its siblings, merged_with.  *)
(*                                                                         *)
(* Python objects that are shared and mutated in place are modelled with   *)
(* explicit references: a Board holds a heap of GoString objects and its   *)
(* grid maps points to references into that heap; the variable boards is   *)
(* the heap of Board objects and a GameState names its board by reference. *)
(***************************************************************************)
EXTENDS Integers, Sequences, FiniteSets, TLC

\* Largest board_size handed to new_game.
MaxSize == 2
\* Largest number of apply_move calls that return along one chain.
MaxMoves == 5
\* Largest number of place_stone calls made on one Board directly.
MaxCalls == 4

\* Python's None, as the value a grid entry or a reference can have.
None == 0

-----------------------------------------------------------------------------
(* gotypes.py *)

black == "black"
white == "white"
Player == {black, white}

other_same(player) == IF player = white THEN white ELSE black

other(player) == IF player = white THEN black ELSE white

\* A Point is the pair <<row, col>>.
neighbors(point) ==
  << <<point[1] - 1, point[2]>>,
     <<point[1] + 1, point[2]>>,
     <<point[1], point[2] - 1>>,
     <<point[1], point[2] + 1>> >>

-----------------------------------------------------------------------------
(* Move *)

\* Move.point of a Move made without a point.
NoPoint == <<>>

\* The fields Move.__init__ sets.
Move(point, is_pass, is_resign) ==
  [point |-> point, is_play |-> point # NoPoint,
   is_pass |-> is_pass, is_resign |-> is_resign]

\* GameState.last_move of the initial state (None).
NoMove ==
  [point |-> NoPoint, is_play |-> FALSE, is_pass |-> FALSE, is_resign |-> FALSE]

\* The assertion of Move.__init__: ^ is exclusive or, applied twice.
Move_asserts(point, is_pass, is_resign) ==
  ((point # NoPoint) # is_pass) # is_resign

\* Move(...) as a call: the error it raises and the object it returns.
Move_init(point, is_pass, is_resign) ==
  IF Move_asserts(point, is_pass, is_resign)
  THEN [raised |-> "None", result |-> <<Move(point, is_pass, is_resign)>>]
  ELSE [raised |-> "AssertionError", result |-> <<>>]

\* The names the body of class Move binds: __init__ alone. play, pass_turn
\* and resign are bound by statements of the body of __init__, as its locals.
MoveAttributes == {"__init__"}
MoveInitLocals == {"play", "pass_turn", "resign"}

\* Move.name(...) as a call: the attribute lookup, then the function found.
Move_call(name, point) ==
  IF name \notin MoveAttributes
  THEN [raised |-> "AttributeError", result |-> <<>>]
  ELSE IF name = "play" THEN Move_init(point, FALSE, FALSE)
  ELSE IF name = "pass_turn" THEN Move_init(NoPoint, TRUE, FALSE)
  ELSE Move_init(NoPoint, FALSE, TRUE)

-----------------------------------------------------------------------------
(* GoString *)

SeqToSet(s) == {s[i] : i \in DOMAIN s}

\* GoString.__init__: stones and liberties become sets.
GoString(color, stones, liberties) ==
  [color |-> color, stones |-> stones, liberties |-> liberties]

\* remove_liberty is set.remove: it raises KeyError for a missing element.
remove_liberty_raises(string, point) == point \notin string.liberties

remove_liberty(string, point) ==
  [string EXCEPT !.liberties = @ \ {point}]

add_liberty(string, point) ==
  [string EXCEPT !.liberties = @ \cup {point}]

\* The assertion of merged_with.
merged_with_asserts(self, go_string) == go_string.color = self.color

merged_with_drops_other(self, go_string) == self

merged_with_minus_own_stones(self, go_string) ==
  GoString(self.color,
           self.stones \cup go_string.stones,
           (self.liberties \cup go_string.liberties) \ self.stones)

merged_with(self, go_string) ==
  LET combine_stones == self.stones \cup go_string.stones
  IN  GoString(self.color,
               combine_stones,
               (self.liberties \cup go_string.liberties) \ combine_stones)

num_liberties(string) == Cardinality(string.liberties)

\* GoString.__eq__ on two GoStrings.
eq(self, string) ==
  /\ self.color = string.color
  /\ self.stones = string.stones
  /\ self.liberties = string.liberties

\* color == string for a Player and a GoString: Enum's comparison does not
\* apply, GoString.__eq__ is tried and its isinstance test fails.
eq_player(string, color) == FALSE

-----------------------------------------------------------------------------
(* Board *)

\* Board.__init__: the grid is an empty dict, no GoString exists.
Board(num_rows, num_cols) ==
  [num_rows |-> num_rows, num_cols |-> num_cols, grid |-> <<>>, heap |-> <<>>]

is_on_grid(board, point) ==
  /\ 1 <= point[1] /\ point[1] <= board.num_rows
  /\ 1 <= point[2] /\ point[2] <= board.num_cols

\* The points is_on_grid holds for.
GridPoints(board) == (1..board.num_rows) \X (1..board.num_cols)

\* dict.get: None for a missing key, else the stored value (maybe None).
grid_get(grid, point) ==
  IF point \in DOMAIN grid THEN grid[point] ELSE None

\* dict item assignment.
grid_set(grid, point, value) ==
  [q \in (DOMAIN grid) \cup {point} |-> IF q = point THEN value ELSE grid[q]]

get_go_string(board, point) ==
  LET string == grid_get(board.grid, point)
  IN  IF string = None THEN None ELSE string

\* The reference of a newly constructed object.
new_ref(heap) ==
  IF DOMAIN heap = {} THEN 1
  ELSE 1 + CHOOSE m \in DOMAIN heap : \A r \in DOMAIN heap : r <= m

heap_set(heap, ref, string) ==
  [r \in (DOMAIN heap) \cup {ref} |-> IF r = ref THEN string ELSE heap[r]]

\* `string in list` for a list of GoStrings: identity, then __eq__.
string_in(heap, ref, list) ==
  \E i \in DOMAIN list : list[i] = ref \/ eq(heap[list[i]], heap[ref])

\* `color in list` for a Player and a list of GoStrings.
color_in(heap, color, list) ==
  \E i \in DOMAIN list : eq_player(heap[list[i]], color)

\* remove_string, the loop over string.stones. The strings the caller hands
\* over are registered at all their stones, so the order in which the set is
\* walked does not show in the result.
RECURSIVE remove_stones(_, _, _, _)
remove_stones(grid, heap, string, todo) ==
  IF todo = {} THEN [grid |-> grid, heap |-> heap]
  ELSE
    LET point == CHOOSE p \in todo : TRUE
        touched == {r \in DOMAIN heap :
                      /\ r # string
                      /\ \E i \in 1..4 : grid_get(grid, neighbors(point)[i]) = r}
        heap1 == [r \in DOMAIN heap |->
                    IF r \in touched THEN add_liberty(heap[r], point) ELSE heap[r]]
    IN  remove_stones(grid_set(grid, point, None), heap1, string, todo \ {point})

remove_string_keeps_liberties(grid, heap, string) ==
  [grid |-> [q \in DOMAIN grid |->
               IF q \in heap[string].stones THEN None ELSE grid[q]],
   heap |-> heap]

remove_string_and_neighbors(grid, heap, string) ==
  [grid |-> [q \in DOMAIN grid |->
               IF \/ q \in heap[string].stones
                  \/ \E t \in heap[string].stones : q \in SeqToSet(neighbors(t))
               THEN None ELSE grid[q]],
   heap |-> heap]

remove_string(grid, heap, string) ==
  remove_stones(grid, heap, string, heap[string].stones)

\* place_stone, line 106-107: merge with every string of the list.
RECURSIVE merge_loop(_, _, _, _)
merge_loop(new_string, heap, list, i) ==
  IF i > Len(list) THEN new_string
  ELSE merge_loop(merged_with(new_string, heap[list[i]]), heap, list, i + 1)

register_one_stone(grid, stones, ref) ==
  grid_set(grid, CHOOSE q \in stones : TRUE, ref)

\* place_stone, line 108-109: register the string at each of its stones.
register(grid, stones, ref) ==
  [q \in (DOMAIN grid) \cup stones |-> IF q \in stones THEN ref ELSE grid[q]]

\* place_stone, line 112-113: stops at the first remove_liberty that raises.
\* calls is the number of remove_liberty calls made, the raising one included.
RECURSIVE remove_liberty_loop(_, _, _, _)
remove_liberty_loop(heap, list, i, point) ==
  IF i > Len(list) THEN [heap |-> heap, raised |-> FALSE, calls |-> i - 1]
  ELSE IF remove_liberty_raises(heap[list[i]], point)
       THEN [heap |-> heap, raised |-> TRUE, calls |-> i]
       ELSE remove_liberty_loop(
              [heap EXCEPT ![list[i]] = remove_liberty(@, point)],
              list, i + 1, point)

\* place_stone, line 116-118. captured lists the strings handed to
\* remove_string, in order.
RECURSIVE capture_loop(_, _, _, _)
capture_loop(grid, heap, list, i) ==
  IF i > Len(list) THEN [grid |-> grid, heap |-> heap, captured |-> <<>>]
  ELSE IF num_liberties(heap[list[i]]) = 0
       THEN LET r == remove_string(grid, heap, list[i])
                rest == capture_loop(r.grid, r.heap, list, i + 1)
            IN  [rest EXCEPT !.captured = <<list[i]>> \o @]
       ELSE capture_loop(grid, heap, list, i + 1)

\* The locals of place_stone before its loop.
Frame(board) ==
  [grid |-> board.grid, heap |-> board.heap,
   adjacent_same_color |-> <<>>, adjacent_opposite_color |-> <<>>,
   liberties |-> <<>>, raised |-> "None", log |-> <<>>]

\* The on-grid neighbors of point that the loop has not come to yet when it
\* is at neighbor.
unclassified(board, point, neighbor) ==
  LET n == neighbors(point)
      at == CHOOSE i \in 1..4 : n[i] = neighbor
  IN  {n[j] : j \in {k \in 1..4 : k > at /\ is_on_grid(board, n[k])}}

\* What one pass of the loop adds to the log of the call: its remove_liberty
\* calls and its captures, each with the stones the string had, whether the
\* point was among its liberties, and the neighbors still unclassified.
events(board, heap, list, rl, captured, point, neighbor) ==
  [j \in 1..rl.calls |->
     [op |-> "remove_liberty", string |-> list[j],
      stones |-> heap[list[j]].stones,
      present |-> ~(rl.raised /\ j = rl.calls),
      pending |-> unclassified(board, point, neighbor)]]
  \o
  [j \in 1..Len(captured) |->
     [op |-> "capture", string |-> captured[j],
      stones |-> heap[captured[j]].stones,
      present |-> TRUE,
      pending |-> unclassified(board, point, neighbor)]]

\* One pass of the loop over point.neighbors(), line 88-118: everything down
\* to the capture is inside the loop.
loop_body(board, fr, player, point, neighbor) ==
  IF fr.raised # "None" THEN fr
  ELSE IF ~is_on_grid(board, neighbor) THEN fr
  ELSE
    LET neighbor_string == grid_get(fr.grid, neighbor)
        cls ==
          IF neighbor_string = None
          THEN [fr EXCEPT !.liberties = Append(@, neighbor)]
          ELSE IF fr.heap[neighbor_string].color = player
          THEN IF ~string_in(fr.heap, neighbor_string, fr.adjacent_same_color)
               THEN [fr EXCEPT !.adjacent_same_color = Append(@, neighbor_string)]
               ELSE fr
          ELSE IF ~color_in(fr.heap, fr.heap[neighbor_string].color,
                            fr.adjacent_opposite_color)
               THEN [fr EXCEPT !.adjacent_opposite_color = Append(@, neighbor_string)]
               ELSE fr
        new_string ==
          merge_loop(GoString(player, {point}, SeqToSet(cls.liberties)),
                     cls.heap, cls.adjacent_same_color, 1)
        ref == new_ref(cls.heap)
        heap1 == heap_set(cls.heap, ref, new_string)
        grid1 == register(cls.grid, new_string.stones, ref)
        rl == remove_liberty_loop(heap1, cls.adjacent_opposite_color, 1, point)
        cap == capture_loop(grid1, rl.heap, cls.adjacent_opposite_color, 1)
    IN  IF rl.raised
        THEN [cls EXCEPT !.grid = grid1, !.heap = rl.heap, !.raised = "KeyError",
                         !.log = @ \o events(board, heap1,
                                             cls.adjacent_opposite_color, rl,
                                             <<>>, point, neighbor)]
        ELSE [cls EXCEPT !.grid = cap.grid, !.heap = cap.heap,
                         !.log = @ \o events(board, heap1,
                                             cls.adjacent_opposite_color, rl,
                                             cap.captured, point, neighbor)]

collect_without_dead(board, fr) ==
  LET grid == [q \in DOMAIN fr.grid |->
                 IF fr.grid[q] # None /\ fr.heap[fr.grid[q]].liberties = {}
                 THEN None ELSE fr.grid[q]]
      live == {grid[q] : q \in DOMAIN grid} \ {None}
  IN  [board EXCEPT !.grid = grid,
                    !.heap = [r \in live |-> fr.heap[r]]]

\* The GoStrings of a board are the ones its grid refers to: an object that
\* nothing refers to any more is gone.
collect(board, fr) ==
  LET live == {fr.grid[q] : q \in DOMAIN fr.grid} \ {None}
  IN  [board EXCEPT !.grid = fr.grid,
                    !.heap = [r \in live |-> fr.heap[r]]]

\* The two assertions of place_stone, as the error they raise ("None": pass).
place_stone_asserts_key_absent(board, point) ==
  IF ~is_on_grid(board, point) THEN "OffGrid"
  ELSE IF point \in DOMAIN board.grid THEN "PointOccupied"
  ELSE "None"

place_stone_asserts(board, point) ==
  IF ~is_on_grid(board, point) THEN "OffGrid"
  ELSE IF grid_get(board.grid, point) # None THEN "PointOccupied"
  ELSE "None"

\* place_stone: the board it leaves behind, the error it raised and the log
\* of its remove_liberty calls and captures.
place_stone(board, player, point) ==
  IF place_stone_asserts(board, point) # "None"
  THEN [board |-> board, raised |-> place_stone_asserts(board, point),
        log |-> <<>>]
  ELSE
    LET n == neighbors(point)
        f1 == loop_body(board, Frame(board), player, point, n[1])
        f2 == loop_body(board, f1, player, point, n[2])
        f3 == loop_body(board, f2, player, point, n[3])
        f4 == loop_body(board, f3, player, point, n[4])
    IN  [board |-> collect(board, f4), raised |-> f4.raised, log |-> f4.log]

-----------------------------------------------------------------------------
(* GameState *)

VARIABLES
  boards,   \* the Board objects, by reference
  states,   \* the GameState objects, by reference (in order of creation)
  call,     \* <<>> or the last place_stone call: player, point, the board's
            \* reference, its value before the call, the error and the log
  pc,       \* "ready", or the error that ended the last call
  calls,    \* the number of place_stone calls made on a Board directly
  probe     \* <<>> or the last call made on Move or GoString directly

vars == <<boards, states, call, pc, calls, probe>>

GameState(board, next_player, previous_state, last_move) ==
  [board |-> board, next_player |-> next_player,
   previous_state |-> previous_state, last_move |-> last_move]

\* new_game(board_size)
new_game(board_size) ==
  /\ boards = <<Board(board_size, board_size)>>
  /\ states = <<GameState(1, black, None, NoMove)>>

Init ==
  /\ \E board_size \in 1..MaxSize : new_game(board_size)
  /\ call = <<>>
  /\ pc = "ready"
  /\ calls = 0
  /\ probe = <<>>

share_board(bs, board) == [boards |-> bs, ref |-> board]

\* copy.deepcopy(self.board): a new Board object with its own grid and its
\* own GoStrings, shared among the points as in the original.
deepcopy(bs, board) == [boards |-> Append(bs, bs[board]), ref |-> Len(bs) + 1]

copy_board(bs, board) == [boards |-> Append(bs, bs[board]), ref |-> Len(bs) + 1]

\* next_board = self.board: the same Board object, no new one.
same_board(bs, board) == [boards |-> bs, ref |-> board]

\* The state apply_move is called on: the newest one.
self == Len(states)

\* The points a Play is tried on: those of the grid and, for each of the
\* four comparisons of is_on_grid, a point that fails just that one.
Points ==
  GridPoints(boards[1]) \cup
    {<<0, 1>>, <<boards[1].num_rows + 1, 1>>,
     <<1, 0>>, <<1, boards[1].num_cols + 1>>}

apply_move(move) ==
  /\ pc = "ready"
  /\ Len(states) <= MaxMoves
  /\ IF move.is_play
     THEN
       LET cp == deepcopy(boards, states[self].board)
           next_board == cp.ref
       IN  \E res \in {place_stone(cp.boards[next_board],
                                   states[self].next_player, move.point)} :
           /\ boards' = [cp.boards EXCEPT ![next_board] = res.board]
           /\ call' = << [player |-> states[self].next_player,
                          point |-> move.point,
                          board |-> next_board,
                          before |-> cp.boards[next_board],
                          raised |-> res.raised,
                          log |-> res.log] >>
           /\ IF res.raised = "None"
              THEN /\ states' = Append(states,
                         GameState(next_board, other(states[self].next_player),
                                   self, move))
                   /\ pc' = "ready"
              ELSE /\ states' = states
                   /\ pc' = res.raised
     ELSE
       LET sb == same_board(boards, states[self].board)
           next_board == sb.ref
       IN  /\ boards' = sb.boards
           /\ call' = <<>>
           /\ states' = Append(states,
                  GameState(next_board, other(states[self].next_player),
                            self, move))
           /\ pc' = "ready"
  /\ UNCHANGED <<calls, probe>>

Play == \E point \in Points : apply_move(Move(point, FALSE, FALSE))
Pass == apply_move(Move(NoPoint, TRUE, FALSE))
Resign == apply_move(Move(NoPoint, FALSE, TRUE))

Next == Play \/ Pass \/ Resign

Spec == Init /\ [][Next]_vars

is_over_last_move_only(s) ==
  IF states[s].last_move = NoMove THEN FALSE
  ELSE IF states[s].last_move.is_resign THEN TRUE
  ELSE states[s].last_move.is_pass

is_over_for_good(s) ==
  \E t \in 2..s :
    \/ states[t].last_move.is_resign
    \/ states[t].last_move.is_pass /\ states[t - 1].last_move.is_pass

\* is_over() of the state with reference s.
is_over(s) ==
  IF states[s].last_move = NoMove THEN FALSE
  ELSE IF states[s].last_move.is_resign THEN TRUE
  ELSE LET previous_last_move == states[states[s].previous_state].last_move
       IN  IF previous_last_move = NoMove THEN FALSE
           ELSE states[s].last_move.is_pass /\ previous_last_move.is_pass

-----------------------------------------------------------------------------
(* Move, GoString and Board used directly, outside a game. probe holds one
   call on Move or GoString, made with any arguments from the state Init. *)

\* Move(point, is_pass, is_resign) for every combination of the arguments.
Construct ==
  /\ probe = <<>>
  /\ \E point \in Points \cup {NoPoint}, is_pass \in BOOLEAN, is_resign \in BOOLEAN :
    /\ probe' = << [op |-> "Move", name |-> "__init__", point |-> point,
                    is_pass |-> is_pass, is_resign |-> is_resign,
                    out |-> Move_init(point, is_pass, is_resign)] >>
    /\ UNCHANGED <<boards, states, call, pc, calls>>

\* Move.play(point), Move.pass_turn(), Move.resign().
Constructor ==
  /\ probe = <<>>
  /\ \E name \in MoveInitLocals, point \in Points :
    /\ probe' = << [op |-> "Move.", name |-> name,
                    point |-> IF name = "play" THEN point ELSE NoPoint,
                    is_pass |-> FALSE, is_resign |-> FALSE,
                    out |-> Move_call(name, point)] >>
    /\ UNCHANGED <<boards, states, call, pc, calls>>

\* The GoStrings merged_with is tried on: of either color, with stones and
\* liberties among the points of the first row.
MergePoints == {q \in GridPoints(boards[1]) : q[1] = 1}
Strings ==
  {GoString(color, stones, liberties) :
     color \in Player, stones \in (SUBSET MergePoints) \ {{}},
     liberties \in SUBSET MergePoints}

\* self.merged_with(go_string) as a call: <<>> when the assertion fails.
merged_with_call(a, go_string) ==
  IF a = <<>> \/ go_string = <<>> THEN <<>>
  ELSE IF merged_with_asserts(a[1], go_string[1])
       THEN <<merged_with(a[1], go_string[1])>>
       ELSE <<>>

\* a.merged_with(b), b.merged_with(a), and the two ways to merge a, b and c.
Merge ==
  /\ probe = <<>>
  /\ \E a \in Strings, b \in Strings, c \in Strings :
    /\ probe' = << [op |-> "merged_with", a |-> a, b |-> b, c |-> c,
                    ab |-> merged_with_call(<<a>>, <<b>>),
                    ba |-> merged_with_call(<<b>>, <<a>>),
                    ab_c |-> merged_with_call(merged_with_call(<<a>>, <<b>>),
                                              <<c>>),
                    a_bc |-> merged_with_call(<<a>>,
                                              merged_with_call(<<b>>, <<c>>))] >>
    /\ UNCHANGED <<boards, states, call, pc, calls>>

NextPure == Construct \/ Constructor \/ Merge

SpecPure == Init /\ [][NextPure]_vars

\* board.place_stone(player, point) on the Board of a new game, with the
\* players in any order.
PlaceStone ==
  \E player \in Player, point \in Points :
    /\ pc = "ready"
    /\ calls < MaxCalls
    /\ \E res \in {place_stone(boards[1], player, point)} :
         /\ boards' = [boards EXCEPT ![1] = res.board]
         /\ call' = << [player |-> player, point |-> point, board |-> 1,
                        before |-> boards[1], raised |-> res.raised,
                        log |-> res.log] >>
         /\ pc' = IF res.raised = "None" THEN "ready" ELSE res.raised
    /\ calls' = calls + 1
    /\ UNCHANGED <<states, probe>>

NextBoard == PlaceStone

SpecBoard == Init /\ [][NextBoard]_vars

-----------------------------------------------------------------------------
(* What the properties below speak of *)

\* The board of the newest state.
Tip == boards[states[self].board]

\* The last place_stone call and the board it left behind.
Called == call # <<>>
Returned == Called /\ call[1].raised = "None"
Before == call[1].before
After == boards[call[1].board]

Adjacent(point) == SeqToSet(neighbors(point))

\* The GoStrings on a board, by reference.
LiveStrings(board) == {board.grid[q] : q \in DOMAIN board.grid} \ {None}

\* The same occupancy, and at each occupied point a string of the same
\* color, stones and liberties.
SameBoard(a, b) ==
  \A q \in GridPoints(a) \cup DOMAIN a.grid \cup DOMAIN b.grid :
    /\ (get_go_string(a, q) = None) = (get_go_string(b, q) = None)
    /\ get_go_string(a, q) # None =>
         a.heap[get_go_string(a, q)] = b.heap[get_go_string(b, q)]

\* The stones of a set that orthogonal steps inside the set reach from seen.
RECURSIVE Reach(_, _)
Reach(seen, stones) ==
  LET more == {q \in stones \ seen : \E s \in seen : q \in Adjacent(s)}
  IN  IF more = {} THEN seen ELSE Reach(seen \cup more, stones)

\* The opponent strings of the board before the call whose only liberty is
\* the point played.
LastLibertyTaken ==
  {g \in LiveStrings(Before) :
     /\ Before.heap[g].color = other(call[1].player)
     /\ Before.heap[g].liberties = {call[1].point}}

-----------------------------------------------------------------------------
(* Properties *)

\* C1: when place_stone(player, p) returns, get_go_string(p) is a string of
\* the player's color that has p among its stones.
C1_PlacedStoneIsOnBoard ==
  Returned =>
    /\ get_go_string(After, call[1].point) # None
    /\ After.heap[get_go_string(After, call[1].point)].color = call[1].player
    /\ call[1].point \in After.heap[get_go_string(After, call[1].point)].stones

\* C2: a place_stone on an empty on-grid point that takes the last liberty of
\* an opponent string returns, leaves none of that string's stones on the
\* board, and each vacated point is a liberty of every string next to it.
C2_CaptureCompletes ==
  (Called /\ place_stone_asserts(Before, call[1].point) = "None") =>
    \A g \in LastLibertyTaken :
      /\ call[1].raised = "None"
      /\ \A s \in Before.heap[g].stones :
           /\ get_go_string(After, s) = None
           /\ \A n \in Adjacent(s) :
                get_go_string(After, n) # None =>
                  s \in After.heap[get_go_string(After, n)].liberties

\* C3: on the board of a state that apply_move returned, the liberties of each
\* string are exactly the empty on-grid points next to one of its stones.
C3_LibertiesAreEmptyNeighbors ==
  pc = "ready" =>
    \A g \in LiveStrings(Tip) :
      Tip.heap[g].liberties =
        {q \in GridPoints(Tip) :
           /\ get_go_string(Tip, q) = None
           /\ \E s \in Tip.heap[g].stones : q \in Adjacent(s)}

C3_Witness ==
  /\ Returned
  /\ LastLibertyTaken # {}
  /\ \E g \in LiveStrings(Tip) :
       \E s \in UNION {Before.heap[h].stones : h \in LastLibertyTaken} :
         s \in Tip.heap[g].liberties

\* C4: on the board of a state that apply_move returned, a point maps to a
\* string exactly if it is one of the string's stones, so each occupied point
\* is in one string and all stones of a string map to the one shared object.
C4_GridAgreesWithStones ==
  pc = "ready" =>
  /\ \A g \in LiveStrings(Tip) : \A q \in GridPoints(Tip) \cup Tip.heap[g].stones :
       (get_go_string(Tip, q) = g) <=> (q \in Tip.heap[g].stones)
  /\ \A q \in GridPoints(Tip) :
       get_go_string(Tip, q) # None =>
         Cardinality({g \in DOMAIN Tip.heap : q \in Tip.heap[g].stones}) = 1

C4_Witness ==
  /\ Returned
  /\ states[self].board = call[1].board
  /\ get_go_string(Tip, call[1].point) # None
  /\ Cardinality(Tip.heap[get_go_string(Tip, call[1].point)].stones) >= 2

\* C5: on the board of a state that apply_move returned, the stones of each
\* string are connected, and two adjacent stones of one color are in one
\* string.
C5_StringsAreMaximalConnected ==
  pc = "ready" =>
  /\ \A g \in LiveStrings(Tip) :
       Reach({CHOOSE s \in Tip.heap[g].stones : TRUE}, Tip.heap[g].stones)
         = Tip.heap[g].stones
  /\ \A q \in GridPoints(Tip) : \A n \in Adjacent(q) :
       (/\ get_go_string(Tip, q) # None
        /\ get_go_string(Tip, n) # None
        /\ Tip.heap[get_go_string(Tip, q)].color = Tip.heap[get_go_string(Tip, n)].color)
       => get_go_string(Tip, q) = get_go_string(Tip, n)

C5_Witness ==
  /\ Returned
  /\ Cardinality({get_go_string(Before, n) : n \in Adjacent(call[1].point)}
                 \ {None}) >= 2
  /\ \A n \in Adjacent(call[1].point) :
       get_go_string(Before, n) # None =>
         Before.heap[get_go_string(Before, n)].color = call[1].player
  /\ Cardinality(Tip.heap[get_go_string(Tip, call[1].point)].stones) >= 3

\* C6: an apply_move, returning or raising, changes no state that existed
\* before it and no board of such a state.
C6_EarlierBoardsUntouched ==
  [][\A s \in 1..Len(states) :
       /\ states'[s] = states[s]
       /\ boards'[states[s].board] = boards[states[s].board]]_vars

C6_Witness ==
  /\ Returned
  /\ LastLibertyTaken # {}
  /\ states[self].previous_state # None
  /\ boards[states[states[self].previous_state].board] = Before
  /\ ~SameBoard(Tip, Before)

\* C7: a Play on an on-grid, unoccupied point completes without an error.
C7_PlayOnEmptyPointCompletes ==
  (Called /\ place_stone_asserts(Before, call[1].point) = "None") =>
    call[1].raised = "None"

\* C8: is_over() holds exactly if the last move is a resignation, or the last
\* move and the one before it are both passes.
C8_IsOverIffResignOrTwoPasses ==
  \A s \in 1..Len(states) :
    is_over(s) <=>
      \/ states[s].last_move.is_resign
      \/ /\ states[s].last_move.is_pass
         /\ states[s].previous_state # None
         /\ states[states[s].previous_state].last_move.is_pass

C8_Witness ==
  /\ Len(states) >= 4
  /\ states[self].last_move.is_pass
  /\ states[self - 1].last_move.is_pass
  /\ states[self - 2].last_move.is_play
  /\ is_over(self)
  /\ ~is_over(self - 1)
  /\ ~is_over(1)

\* C9: a place_stone that fails leaves the board as it was before the call.
C9_NoPartialFailure ==
  (Called /\ call[1].raised # "None") => SameBoard(After, Before)

\* C10: place_stone off the grid fails with OffGrid and on a stone with
\* PointOccupied, both with the board as it was; a point without a stone,
\* also one a capture has vacated, is refused by neither.
C10_PreconditionFailures ==
  Called =>
    /\ ~is_on_grid(Before, call[1].point) =>
         call[1].raised = "OffGrid" /\ After = Before
    /\ (is_on_grid(Before, call[1].point)
        /\ get_go_string(Before, call[1].point) # None) =>
         call[1].raised = "PointOccupied" /\ After = Before
    /\ (is_on_grid(Before, call[1].point)
        /\ get_go_string(Before, call[1].point) = None) =>
         call[1].raised \notin {"OffGrid", "PointOccupied"}

C10_Witness ==
  /\ Returned
  /\ call[1].point \in DOMAIN Before.grid
  /\ Before.grid[call[1].point] = None
  /\ get_go_string(After, call[1].point) # None

\* How many of the three booleans are true.
HowMany(a, b, c) ==
  (IF a THEN 1 ELSE 0) + (IF b THEN 1 ELSE 0) + (IF c THEN 1 ELSE 0)

\* C11: Move(point, is_pass, is_resign) fails when none, two or all three of
\* point, is_pass and is_resign are set and returns only when exactly one is,
\* and the Move it returns has exactly one of is_play, is_pass and is_resign
\* true.
C11_ExactlyOneActionPerMove ==
  (probe # <<>> /\ probe[1].op = "Move") =>
    /\ (probe[1].out.raised = "None") =
         (HowMany(probe[1].point # NoPoint, probe[1].is_pass,
                  probe[1].is_resign) = 1)
    /\ probe[1].out.raised = "None" =>
         HowMany(probe[1].out.result[1].is_play, probe[1].out.result[1].is_pass,
                 probe[1].out.result[1].is_resign) = 1

\* The states made by apply_move(move) from s on, counted down the
\* previous_state references.
RECURSIVE ChainLength(_)
ChainLength(s) ==
  IF states[s].previous_state = None THEN 0
  ELSE 1 + ChainLength(states[s].previous_state)

\* The state the previous_state references lead to from s.
RECURSIVE ChainEnd(_)
ChainEnd(s) ==
  IF states[s].previous_state = None THEN s
  ELSE ChainEnd(states[s].previous_state)

\* The moves of the actions.
Moves ==
  {Move(point, FALSE, FALSE) : point \in Points} \cup
    {Move(NoPoint, TRUE, FALSE), Move(NoPoint, FALSE, TRUE)}

\* C12: the state T that S.apply_move(m) returns has the other player to
\* move, S as previous_state and m as last_move; the initial state has Black
\* to move, no previous state and no last move; after k moves Black is to
\* move when k is even and White when k is odd, and the previous_state chain
\* has length k and ends at the initial state.
C12_TurnsAlternateAlongTheChain ==
  /\ [](/\ states[1].next_player = black
        /\ states[1].previous_state = None
        /\ states[1].last_move = NoMove
        /\ \A s \in 1..Len(states) :
             /\ states[s].next_player = (IF (s - 1) % 2 = 0 THEN black ELSE white)
             /\ ChainLength(s) = s - 1
             /\ ChainEnd(s) = 1)
  /\ [][Len(states') > Len(states) =>
          /\ Len(states') = Len(states) + 1
          /\ states'[Len(states')].previous_state = self
          /\ states'[Len(states')].next_player # states[self].next_player
          /\ states'[Len(states')].next_player \in Player
          /\ \A move \in Moves :
               (/\ move.is_play = (call' # <<>>)
                /\ move.is_play => call'[1].point = move.point
                /\ apply_move(move))
               => states'[Len(states')].last_move = move]_vars

C12_Witness ==
  /\ Len(states) >= 4
  /\ states[2].last_move.is_play
  /\ states[3].last_move.is_pass
  /\ states[4].last_move.is_play
  /\ states[4].next_player = white

\* C13: for a Pass or a Resign, apply_move returns a state on the very Board
\* object of the state it was called on; no Board is made or changed, so
\* occupancy and strings are the same, and the new state differs from the old
\* one in next_player, previous_state and last_move only.
C13_PassAndResignShareTheBoard ==
  [][(Len(states') > Len(states) /\ ~states'[Len(states')].last_move.is_play) =>
       /\ states'[Len(states')].board = states[self].board
       /\ boards' = boards
       /\ SubSeq(states', 1, Len(states)) = states
       /\ states'[Len(states')].next_player # states[self].next_player
       /\ states'[Len(states')].previous_state = self]_vars

C13_Witness ==
  \E s \in 2..Len(states) :
    /\ ~states[s].last_move.is_play
    /\ states[s].board = states[s - 1].board
    /\ LiveStrings(boards[states[s].board]) # {}
    /\ Len(boards) = s - 1

\* C14: merged_with on strings of one color is commutative and associative
\* in stones and liberties; the string it returns has the union of the
\* stones and, as liberties, the union of the liberties minus those stones;
\* on strings of different colors it fails.
C14_MergedWithIsUnion ==
  (probe # <<>> /\ probe[1].op = "merged_with") =>
    LET a == probe[1].a
        b == probe[1].b
        c == probe[1].c
        ab == probe[1].ab
    IN  /\ a.color # b.color => ab = <<>> /\ probe[1].ba = <<>>
        /\ a.color = b.color =>
             /\ ab # <<>>
             /\ ab[1].color = a.color
             /\ ab[1].stones = a.stones \cup b.stones
             /\ ab[1].liberties =
                  (a.liberties \cup b.liberties) \ (a.stones \cup b.stones)
             /\ probe[1].ba = ab
        /\ (a.color = b.color /\ b.color = c.color) =>
             /\ probe[1].ab_c # <<>>
             /\ probe[1].ab_c = probe[1].a_bc
        /\ (a.color # b.color \/ b.color # c.color) =>
             /\ probe[1].ab_c = <<>>
             /\ probe[1].a_bc = <<>>

C14_Witness ==
  /\ probe # <<>>
  /\ probe[1].op = "merged_with"
  /\ probe[1].a.color = probe[1].b.color
  /\ probe[1].b.color = probe[1].c.color
  /\ probe[1].a.liberties \cap probe[1].b.stones # {}
  /\ probe[1].b.liberties \cap probe[1].c.stones # {}
  /\ probe[1].a.stones # probe[1].b.stones
  /\ probe[1].ab_c # <<>>
  /\ probe[1].ab_c[1].liberties # probe[1].a.liberties

\* C15: Move.play(point), Move.pass_turn() and Move.resign() can be called on
\* Move, and each returns a Move with exactly its one action set: is_play
\* with the point, is_pass, or is_resign.
C15_ConstructorsAreAvailable ==
  (probe # <<>> /\ probe[1].op = "Move.") =>
    /\ probe[1].out.raised = "None"
    /\ probe[1].out.result # <<>>
    /\ probe[1].out.result[1] =
         [point |-> probe[1].point,
          is_play |-> probe[1].name = "play",
          is_pass |-> probe[1].name = "pass_turn",
          is_resign |-> probe[1].name = "resign"]

\* The last place_stone call got past its two assertions.
Placing == Called /\ call[1].raised \notin {"OffGrid", "PointOccupied"}

\* The remove_liberty calls of the last place_stone call on the string that
\* had these stones.
RemoveLibertyCalls(stones) ==
  {i \in DOMAIN call[1].log :
     /\ call[1].log[i].op = "remove_liberty"
     /\ call[1].log[i].stones = stones}

\* C16: one place_stone call removes the point as a liberty exactly once from
\* each distinct opposite-color string adjacent to it, whether the string
\* touches the point through one neighbor or more and however many on-grid
\* neighbors the point has, and never calls remove_liberty for a point that
\* is not among the string's liberties.
C16_LibertyRemovedOncePerString ==
  Placing =>
    /\ \A i \in DOMAIN call[1].log :
         call[1].log[i].op = "remove_liberty" => call[1].log[i].present
    /\ \A g \in LiveStrings(Before) :
         (/\ Before.heap[g].color = other(call[1].player)
          /\ Before.heap[g].stones \cap Adjacent(call[1].point) # {})
         => Cardinality(RemoveLibertyCalls(Before.heap[g].stones)) = 1

\* C17: within one place_stone call no remove_liberty and no capture happens
\* while a neighbor of the point is still unclassified, so while a same-color
\* adjacent string may still be unmerged: merging and registering the placed
\* stone come first.
C17_ClassifyAndMergeBeforeRemoving ==
  Placing => \A i \in DOMAIN call[1].log : call[1].log[i].pending = {}

\* The points that held a stone before the last place_stone call and hold
\* none after it.
Vacated ==
  {q \in GridPoints(Before) :
     get_go_string(Before, q) # None /\ get_go_string(After, q) = None}

\* C18: a place_stone(player, p) call that returns changes occupancy only at
\* p and at the stones of opponent strings adjacent to p: an empty point
\* other than p stays empty, a stone that stays keeps its color, a stone
\* that goes belongs to an opponent string adjacent to p that goes whole, so
\* no stone of the player goes; and a string that is neither adjacent to p
\* nor to a vacated point keeps its stones and liberties.
C18_PlaceStoneFrame ==
  Returned =>
    \A q \in GridPoints(Before) \ {call[1].point} :
      LET b == get_go_string(Before, q)
          a == get_go_string(After, q)
      IN  /\ b = None => a = None
          /\ (b # None /\ a # None) =>
               /\ After.heap[a].color = Before.heap[b].color
               /\ (/\ Before.heap[b].stones \cap Adjacent(call[1].point) = {}
                   /\ \A t \in Before.heap[b].stones : Adjacent(t) \cap Vacated = {})
                  => After.heap[a] = Before.heap[b]
          /\ (b # None /\ a = None) =>
               /\ Before.heap[b].color # call[1].player
               /\ Before.heap[b].stones \cap Adjacent(call[1].point) # {}
               /\ Before.heap[b].stones \subseteq Vacated

\* A capture next to which a stone of the player stays, and a call that
\* leaves a string away from the point as it was.
C18_Witness ==
  /\ Returned
  /\ Vacated # {}
  /\ \E q \in GridPoints(Before) \ {call[1].point} :
       /\ get_go_string(Before, q) # None
       /\ get_go_string(After, q) # None
       /\ After.heap[get_go_string(After, q)].color = call[1].player

\* The stones of a color on a board.
StonesOf(board, color) ==
  {q \in GridPoints(board) :
     /\ get_go_string(board, q) # None
     /\ board.heap[get_go_string(board, q)].color = color}

\* C19: place_stone has no self-capture check. A call whose point has no
\* opponent stone next to it returns, whatever liberties it leaves the
\* player's string; a call that returns removes stones of the opponent only,
\* and the stone it placed is on the board in a string of the player's
\* color, also when that string has no liberty.
C19_NoSelfCaptureCheck ==
  /\ (Placing /\ Adjacent(call[1].point) \cap
                   StonesOf(Before, other(call[1].player)) = {})
       => Returned
  /\ Returned =>
       /\ StonesOf(Before, call[1].player) \subseteq
            StonesOf(After, call[1].player)
       /\ Vacated \subseteq StonesOf(Before, other(call[1].player))
       /\ (\E n \in Adjacent(call[1].point) : is_on_grid(Before, n)) =>
            /\ call[1].point \in StonesOf(After, call[1].player)
            /\ call[1].point \in
                 After.heap[get_go_string(After, call[1].point)].stones

\* The player fills the last empty point inside the player's own stones: the
\* string has no liberty and stays.
C19_Witness ==
  /\ Returned
  /\ Vacated = {}
  /\ StonesOf(Before, call[1].player) # {}
  /\ call[1].point \in StonesOf(After, call[1].player)
  /\ After.heap[get_go_string(After, call[1].point)].liberties = {}
  /\ Cardinality(After.heap[get_go_string(After, call[1].point)].stones) > 1

\* C20: apply_move does not look at is_over(). On a state that is over a
\* Pass and a Resign return a new state; the state a Play returns from a
\* state that is over is not over, and neither is the state a Pass returns
\* from it after a move that was not a Pass: is_over() of the new state is
\* decided by its last two moves.
C20_TerminationIsNotPermanent ==
  /\ (pc = "ready" /\ Len(states) <= MaxMoves /\ is_over(self)) =>
       /\ ENABLED (Pass /\ Len(states') > Len(states))
       /\ ENABLED (Resign /\ Len(states') > Len(states))
  /\ \A s \in 2..Len(states) :
       is_over(states[s].previous_state) =>
         /\ states[s].last_move.is_play => ~is_over(s)
         /\ (/\ states[s].last_move.is_pass
             /\ ~states[states[s].previous_state].last_move.is_pass)
            => ~is_over(s)
         /\ is_over(s) =
              (\/ states[s].last_move.is_resign
               \/ /\ states[s].last_move.is_pass
                  /\ states[states[s].previous_state].last_move.is_pass)

\* A Play after a Resign and a Play after two Passes, each leaving a state
\* that is not over.
C20_Witness ==
  /\ \E s \in 3..Len(states) :
       /\ states[s - 1].last_move.is_resign
       /\ is_over(s - 1)
       /\ states[s].last_move.is_play
       /\ ~is_over(s)
  /\ \E s \in 4..Len(states) :
       /\ states[s - 2].last_move.is_pass
       /\ states[s - 1].last_move.is_pass
       /\ is_over(s - 1)
       /\ states[s].last_move.is_play
       /\ ~is_over(s)

====
